---- MODULE Spec2Model ----
(***************************************************************************)
(* Model of src/Video_Search_I2T.ipynb: the Gradio handler                 *)
(* process_video_with_gradio and VideoProcessor.process_video with the     *)
(* methods it calls.  The three pretrained models, scenedetect and OpenCV  *)
(* are the environment: each of their calls is a nondeterministic choice   *)
(* over the results (or the exception) the call can produce.               *)
(*                                                                         *)
(* Scores are exact rationals [num, den] (the code holds Python floats);   *)
(* an embedding is the vector of the signs of its components, which is all *)
(* the code's similarity reads (see cosine_similarity below).              *)
(***************************************************************************)
EXTENDS Integers, Sequences, FiniteSets, TLC

\* ------------------------------------------------------------------ bounds
MaxScenes == 2      \* longest scene list scenedetect returns in the model
MaxFrame == 2       \* largest frame number a scene boundary takes
Dim == 1            \* components of an embedding (512 for CLIP ViT-B/32)

\* ------------------------------------------------------------- data values
None == "None"                  \* Python None where the other values are strings
NoEmbedding == <<>>             \* None returned by get_query_embedding
NoScene == <<>>                 \* top_scene = None
RequiredMsg == "Query and Video are required. Please enter a search term."
NoRelevantMsg == "No relevant scene found."
OutputPath == "output_<timestamp>"

VideoFiles == {None, "unreadable.mp4", "video.mp4"}
Queries == {None, "", "sunset"}
Vectors == [1..Dim -> {-1, 1}]
EmbedResults == Vectors \cup {NoEmbedding}

\* Python truth value of a str-or-None argument: `not x`
Falsy(x) == x \in {None, ""}

\* scenedetect.open_video raises for a file it cannot open
OpensVideo(v) == v = "video.mp4"

\* scene_manager.get_scene_list(): consecutive (start, end) pairs, the first
\* starting at frame 0, each ending where the next starts; empty when no cut
\* was detected.
IsSceneList(s) ==
    /\ Len(s) > 0 => s[1][1] = 0
    /\ \A i \in 1..Len(s) : s[i][1] < s[i][2]
    /\ \A i \in 1..(Len(s) - 1) : s[i + 1][1] = s[i][2]

Intervals == {<<a, b>> : a \in 0..MaxFrame, b \in 0..MaxFrame}

RECURSIVE SeqsUpTo(_, _)
SeqsUpTo(S, n) ==
    IF n = 0 THEN {<<>>}
    ELSE LET shorter == SeqsUpTo(S, n - 1)
         IN  shorter \cup {Append(s, x) : s \in {t \in shorter : Len(t) = n - 1}, x \in S}

SceneLists == {s \in SeqsUpTo(Intervals, MaxScenes) : IsSceneList(s)}

\* the frame numbers of D in ascending order: the order range() visits them
RECURSIVE Ascending(_)
Ascending(D) ==
    IF D = {} THEN <<>>
    ELSE LET m == CHOOSE x \in D : \A y \in D : x <= y
         IN  <<m>> \o Ascending(D \ {m})

\* ------------------------------------------------------------------ scores
Sentinel == [num |-> -1, den |-> 1]

\* highest_similarity = -1
SeedLow == [num |-> -2, den |-> 1]
SeedSimilarity == Sentinel

\* scene_similarity > highest_similarity
GreaterEq(a, b) == a.num * b.den >= b.num * a.den
Greater(a, b) == a.num * b.den > b.num * a.den

Sign(x) == IF x > 0 THEN 1 ELSE IF x < 0 THEN -1 ELSE 0

\* torch.nn.functional.cosine_similarity(query_embedding, scene_embeddings):
\* query_embedding has shape (1, D), scene_embeddings = stack of k tensors of
\* shape (1, D) has shape (k, 1, D); the similarity is taken along dim=1 of
\* the broadcast shape (k, 1, D), a dimension of size one, so the result has
\* shape (k, D) and entry (i, d) is q[d] * e_i[d] / (|q[d]| * |e_i[d]|).
cosine_similarity(q, e) == [d \in 1..Dim |-> Sign(q[d]) * Sign(e[d])]

RECURSIVE SumSeq(_)
SumSeq(s) == IF s = <<>> THEN 0 ELSE Head(s) + SumSeq(Tail(s))

RECURSIVE SumSimilarities(_, _)
SumSimilarities(q, E) ==
    IF E = <<>> THEN 0
    ELSE SumSeq(cosine_similarity(q, Head(E))) + SumSimilarities(q, Tail(E))

\* similarities.mean().item() over the k * D entries
mean(q, E) == [num |-> SumSimilarities(q, E), den |-> Len(E) * Dim]

\* torch.stack raises on an empty list and on a list holding None
StackRaises(E) == E = <<>> \/ \E i \in 1..Len(E) : E[i] = NoEmbedding

\* process_scene once compute_I2T_embeddings' loop has filled E
process_scene(E, q) ==
    IF StackRaises(E) \/ q = NoEmbedding THEN Sentinel ELSE mean(q, E)

Usable(E) == SelectSeq(E, LAMBDA e : e # NoEmbedding)

\* `continue` in the except clause of compute_I2T_embeddings' loop
BreakLoop(i, n) == n + 1
ContinueLoop(i, n) == i + 1

\* frames.append((frames_in_scene, scene_start, scene_end))
KeepLatest(fs, item) == <<item>>
HoldFrames(fs, item) == Append(fs, item)

\* `if not query or not video_file`
RejectedBoth(v, q) == Falsy(q) /\ Falsy(v)
Rejected(v, q) == Falsy(q) \/ Falsy(v)

\* ------------------------------------------------------------------- state
VARIABLES
    pc,                 \* position of the single thread of control
    video_file, query,  \* arguments of process_video_with_gradio
    constructed,        \* VideoProcessor() has returned
    scene_list,         \* process_video: scene_list
    frames,             \* process_video: frames
    query_embedding,    \* process_video: query_embedding
    top_scene,          \* process_video: top_scene
    highest_similarity, \* process_video: highest_similarity
    si,                 \* index of the scene the current loop is at
    fi,                 \* compute_I2T_embeddings: index of the frame in frames
    query_embeddings,   \* compute_I2T_embeddings: query_embeddings
    scene_scores,       \* the values process_scene returned, in order
    evidence,           \* per scored scene: what happened to its frames
    log,                \* the model invocations made, in order
    extract_calls,      \* the calls of extract_scene_from_video
    ret,                \* what process_video returned
    result              \* what process_video_with_gradio returned

vars == <<pc, video_file, query, constructed, scene_list, frames,
          query_embedding, top_scene, highest_similarity, si, fi,
          query_embeddings, scene_scores, evidence, log, extract_calls,
          ret, result>>

pvLocals == <<scene_list, frames, query_embedding, top_scene,
              highest_similarity, si, fi, query_embeddings>>
history == <<scene_scores, evidence, log, extract_calls>>

NoResult == [kind |-> "unset", path |-> None, msg |-> None]
\* a function that ends without a return statement returns None
PyNone == [kind |-> "None", path |-> None, msg |-> None]
Pair(p, m) == [kind |-> "list", path |-> p, msg |-> m]

Event(op, s, p, ok) == [op |-> op, scene |-> s, pos |-> p, ok |-> ok]

Init ==
    /\ pc = "gradio"
    /\ video_file \in VideoFiles
    /\ query \in Queries
    /\ constructed = FALSE
    /\ scene_list = <<>>
    /\ frames = <<>>
    /\ query_embedding = NoEmbedding
    /\ top_scene = NoScene
    /\ highest_similarity = SeedSimilarity
    /\ si = 1
    /\ fi = 1
    /\ query_embeddings = <<>>
    /\ scene_scores = <<>>
    /\ evidence = <<>>
    /\ log = <<>>
    /\ extract_calls = <<>>
    /\ ret = "unset"
    /\ result = NoResult

\* --------------------------------------------- process_video_with_gradio
\* the input check: `return [None, error_message]`
gradio_reject ==
    /\ pc = "gradio"
    /\ Rejected(video_file, query)
    /\ result' = Pair(None, RequiredMsg)
    /\ pc' = "returned"
    /\ UNCHANGED <<video_file, query, constructed, pvLocals, history, ret>>

gradio_accept ==
    /\ pc = "gradio"
    /\ ~Rejected(video_file, query)
    /\ pc' = "construct"
    /\ UNCHANGED <<video_file, query, constructed, pvLocals, history, ret, result>>

\* VideoProcessor(): from_pretrained loads the models, or raises; the
\* handler's except clause logs and falls off the end of the function
VideoProcessor_init ==
    /\ pc = "construct"
    /\ \E loaded \in BOOLEAN :
        IF loaded
        THEN /\ constructed' = TRUE
             /\ pc' = "detect"
             /\ UNCHANGED result
        ELSE /\ result' = PyNone
             /\ pc' = "returned"
             /\ UNCHANGED constructed
    /\ UNCHANGED <<video_file, query, pvLocals, history, ret>>

\* ------------------------------------------------------------ process_video
\* Step 1: detect_scenes; open_video's exception leaves process_video and is
\* caught by the handler
detect_scenes ==
    /\ pc = "detect"
    /\ IF OpensVideo(video_file)
       THEN /\ \E sl \in SceneLists : scene_list' = sl
            /\ frames' = <<>>
            /\ si' = 1
            /\ pc' = "extract"
            /\ UNCHANGED result
       ELSE /\ result' = PyNone
            /\ pc' = "returned"
            /\ UNCHANGED <<scene_list, frames, si>>
    /\ UNCHANGED <<video_file, query, constructed, query_embedding, top_scene,
                   highest_similarity, fi, query_embeddings, history, ret>>

\* Step 2, one iteration: extract_frames reads frames scene_start..scene_end
\* and keeps those for which cap.read() returned ret = True
extract_frames ==
    /\ pc = "extract"
    /\ si <= Len(scene_list)
    /\ LET scene_start == scene_list[si][1]
           scene_end == scene_list[si][2]
       IN  \E decoded \in SUBSET (scene_start..scene_end) :
             frames' = HoldFrames(frames,
                                  [frames_in_scene |-> Ascending(decoded),
                                   scene_start |-> scene_start,
                                   scene_end |-> scene_end])
    /\ si' = si + 1
    /\ UNCHANGED <<pc, video_file, query, constructed, scene_list,
                   query_embedding, top_scene, highest_similarity, fi,
                   query_embeddings, history, ret, result>>

\* Step 3: get_query_embedding(query) returns the embedding, or logs the
\* exception and returns None; then the locals of step 4 are set
get_query_embedding ==
    /\ pc = "extract"
    /\ si > Len(scene_list)
    /\ \E r \in EmbedResults : query_embedding' = r
    /\ log' = Append(log, Event("embed_query", 0, 0, TRUE))
    /\ top_scene' = NoScene
    /\ highest_similarity' = SeedSimilarity
    /\ si' = 1
    /\ fi' = 1
    /\ query_embeddings' = <<>>
    /\ pc' = "score"
    /\ UNCHANGED <<video_file, query, constructed, scene_list, frames,
                   scene_scores, evidence, extract_calls, ret, result>>

InScene == pc = "score" /\ si <= Len(frames)
FramesInScene == frames[si].frames_in_scene

\* compute_I2T_embeddings, one iteration in which BLIP raises
caption_fails ==
    /\ InScene
    /\ fi <= Len(FramesInScene)
    /\ log' = Append(log, Event("caption", si, fi, FALSE))
    /\ fi' = ContinueLoop(fi, Len(FramesInScene))
    /\ UNCHANGED <<pc, video_file, query, constructed, scene_list, frames,
                   query_embedding, top_scene, highest_similarity, si,
                   query_embeddings, scene_scores, evidence, extract_calls,
                   ret, result>>

\* compute_I2T_embeddings, one iteration in which BLIP returns a caption:
\* get_query_embedding(caption) returns its embedding or None, and the
\* value is appended either way
caption_embedded ==
    /\ InScene
    /\ fi <= Len(FramesInScene)
    /\ \E r \in EmbedResults : query_embeddings' = Append(query_embeddings, r)
    /\ log' = log \o <<Event("caption", si, fi, TRUE),
                       Event("embed_caption", si, fi, TRUE)>>
    /\ fi' = fi + 1
    /\ UNCHANGED <<pc, video_file, query, constructed, scene_list, frames,
                   query_embedding, top_scene, highest_similarity, si,
                   scene_scores, evidence, extract_calls, ret, result>>

\* the rest of process_scene (stack, similarity, mean, or -1 from the except
\* clause) and the comparison in process_video's loop
score_scene ==
    /\ InScene
    /\ fi > Len(FramesInScene)
    /\ LET scene_similarity == process_scene(query_embeddings, query_embedding)
           usable == Usable(query_embeddings)
       IN  /\ IF Greater(scene_similarity, highest_similarity)
              THEN /\ highest_similarity' = scene_similarity
                   /\ top_scene' = <<frames[si].scene_start, frames[si].scene_end>>
              ELSE UNCHANGED <<highest_similarity, top_scene>>
           /\ scene_scores' = Append(scene_scores, scene_similarity)
           /\ evidence' = Append(evidence,
                [sampled |-> Len(FramesInScene),
                 captioned |-> Len(query_embeddings),
                 usable_n |-> Len(usable),
                 usable_sum |-> IF query_embedding = NoEmbedding THEN 0
                                ELSE SumSimilarities(query_embedding, usable)])
    /\ si' = si + 1
    /\ fi' = 1
    /\ query_embeddings' = <<>>
    /\ UNCHANGED <<pc, video_file, query, constructed, scene_list, frames,
                   query_embedding, log, extract_calls, ret, result>>

\* Step 5: `if top_scene:` extract and return the path, else return None;
\* the locals, the decoded frames among them, end with the call
process_video_return ==
    /\ pc = "score"
    /\ si > Len(frames)
    /\ IF top_scene # NoScene
       THEN /\ extract_calls' = Append(extract_calls, top_scene)
            /\ ret' = OutputPath
       ELSE /\ ret' = None
            /\ UNCHANGED extract_calls
    /\ frames' = <<>>
    /\ pc' = "processed"
    /\ UNCHANGED <<video_file, query, constructed, scene_list, query_embedding,
                   top_scene, highest_similarity, si, fi, query_embeddings,
                   scene_scores, evidence, log, result>>

\* back in the handler: `if output_scene_path:`
gradio_return ==
    /\ pc = "processed"
    /\ result' = IF ret # None THEN Pair(ret, None) ELSE Pair(None, NoRelevantMsg)
    /\ pc' = "returned"
    /\ UNCHANGED <<video_file, query, constructed, pvLocals, history, ret>>

Next ==
    \/ gradio_reject
    \/ gradio_accept
    \/ VideoProcessor_init
    \/ detect_scenes
    \/ extract_frames
    \/ get_query_embedding
    \/ caption_fails
    \/ caption_embedded
    \/ score_scene
    \/ process_video_return
    \/ gradio_return

Spec == Init /\ [][Next]_vars

\* ================================================================ claims
\* comparison of two scores as rationals
Above(a, b) == a.num * b.den > b.num * a.den
SameScore(a, b) == a.num * b.den = b.num * a.den

Scored == 1..Len(scene_scores)
Interval(i) == scene_list[i]
ScoringOver == pc \in {"processed", "returned"} /\ ret # "unset"
UsableMean(i) == [num |-> evidence[i].usable_sum, den |-> evidence[i].usable_n * Dim]
\* process_scene took the path that returns similarities.mean()
ValidScore(i) ==
    /\ query_embedding # NoEmbedding
    /\ evidence[i].usable_n > 0
    /\ evidence[i].usable_n = evidence[i].captioned

\* C1: after any number of scored scenes, if the best score so far exceeds
\* -1 then top_scene is the first scene, in detection order, whose score
\* equals that best score, and highest_similarity is that score: a later
\* scene with an equal score has not replaced it.
C1_FirstMaxSelected ==
    \A i \in Scored :
        ( /\ Above(scene_scores[i], Sentinel)
          /\ \A j \in Scored : ~Above(scene_scores[j], scene_scores[i])
          /\ \A j \in 1..(i - 1) : ~SameScore(scene_scores[j], scene_scores[i]) )
        => /\ top_scene = Interval(i)
           /\ SameScore(highest_similarity, scene_scores[i])

C1_Witness ==
    /\ ScoringOver
    /\ \E i, j \in Scored :
        /\ i < j
        /\ SameScore(scene_scores[i], scene_scores[j])
        /\ Above(scene_scores[i], Sentinel)
        /\ \A k \in Scored : ~Above(scene_scores[k], scene_scores[i])
        /\ top_scene = Interval(i)

\* C2 (as claimed): once get_query_embedding has failed for the query, no
\* captioner or embedder call follows, no scene is scored, and process_video
\* does not end with the "no relevant scene" outcome.
C2_QueryEmbeddingFatal ==
    (log # <<>> /\ query_embedding = NoEmbedding)
    => /\ Len(log) = 1
       /\ scene_scores = <<>>
       /\ ret # None
       /\ result # Pair(None, NoRelevantMsg)

\* C3 (as claimed): a scene in which some caption could not be embedded and
\* at least one other caption was embedded scores the mean similarity over
\* the embedded captions.
C3_FailedEmbeddingExcluded ==
    \A i \in Scored :
        ( /\ query_embedding # NoEmbedding
          /\ evidence[i].usable_n > 0
          /\ evidence[i].usable_n < evidence[i].captioned )
        => SameScore(scene_scores[i], UsableMean(i))

\* C4 (as claimed): a scene with no caption produced (every frame failed, or
\* no frame was sampled) scores exactly -1, and a scene in which captioning
\* threw for some frames scores the mean similarity over the frames whose
\* caption was produced and embedded.
C4_CaptionFailuresSkipped ==
    \A i \in Scored :
        /\ evidence[i].captioned = 0 => scene_scores[i] = Sentinel
        /\ ( /\ query_embedding # NoEmbedding
             /\ evidence[i].captioned < evidence[i].sampled
             /\ evidence[i].usable_n > 0 )
           => SameScore(scene_scores[i], UsableMean(i))

\* C5 (as claimed): every score computed as a mean is strictly greater than
\* -1, and when scoring is over, if some scene had no usable frame and some
\* scene has a computed score, a scene with a computed score is selected.
C5_SentinelBelowValid ==
    /\ \A i \in Scored : ValidScore(i) => Above(scene_scores[i], Sentinel)
    /\ ( /\ ScoringOver
         /\ \E i \in Scored : evidence[i].usable_n = 0
         /\ \E j \in Scored : ValidScore(j) )
       => \E j \in Scored : ValidScore(j) /\ top_scene = Interval(j)

\* C6 (as claimed): whenever process_video_with_gradio has returned, the
\* caller holds a pair with an output path or with a textual reason.
C6_PathOrReason ==
    pc = "returned"
    => /\ result.kind = "list"
       /\ (result.path # None \/ result.msg # None)

\* C7: extract_scene_from_video is not called before process_video returns;
\* when it has returned, if no scene scored above -1 it returned None and
\* extract_scene_from_video was never called, otherwise it returned the
\* output path and extract_scene_from_video was called exactly once, with
\* the start and end of the selected scene.
C7_ExtractIffRelevant ==
    /\ ret = "unset" => extract_calls = <<>>
    /\ ret # "unset" =>
         /\ Len(scene_scores) = Len(scene_list)
         /\ IF \E i \in Scored : Above(scene_scores[i], Sentinel)
            THEN /\ ret = OutputPath
                 /\ top_scene # NoScene
                 /\ extract_calls = <<top_scene>>
                 /\ \E i \in Scored : /\ top_scene = Interval(i)
                                      /\ Above(scene_scores[i], Sentinel)
            ELSE /\ ret = None
                 /\ extract_calls = <<>>

C7_Witness ==
    /\ ret = OutputPath
    /\ Len(extract_calls) = 1
    /\ \E i \in Scored : scene_scores[i] = Sentinel
    /\ \E i \in Scored : Above(scene_scores[i], Sentinel)

\* C8: with an empty or missing query, or a missing video, the handler is
\* either not yet past its input check or has returned [None, message];
\* VideoProcessor was not constructed, process_video was not entered and no
\* model was invoked.
C8_RejectedBeforeModels ==
    (query \in {None, ""} \/ video_file \in {None, ""})
    => /\ pc \in {"gradio", "returned"}
       /\ pc = "returned" => result = Pair(None, RequiredMsg)
       /\ ~constructed
       /\ ret = "unset"
       /\ log = <<>>
       /\ extract_calls = <<>>

C8_Witness ==
    /\ pc = "returned"
    /\ query = ""
    /\ video_file = "video.mp4"
    /\ result = Pair(None, RequiredMsg)

\* the captioner calls logged, and the (scene, position) pairs of the frames
\* the loops of compute_I2T_embeddings have passed
CaptionCalls == SelectSeq(log, LAMBDA e : e.op = "caption")
FramesPassed ==
    {<<s, p>> \in (1..Len(frames)) \X (1..(MaxFrame + 1)) :
        /\ p <= Len(frames[s].frames_in_scene)
        /\ s < si \/ (s = si /\ p < fi)}

\* C9: no model is invoked before scene detection and frame extraction are
\* over; from then on the first invocation is the embedding of the query
\* and it is the only one; the captioner has been invoked exactly once for
\* every frame the loops have passed, scene by scene in detection order and
\* frame by frame in sampling order; and the embedder has been invoked for a
\* caption exactly once after each caption produced and never otherwise.
C9_InvocationOrder ==
    /\ pc \in {"gradio", "construct", "detect", "extract"} => log = <<>>
    /\ pc \in {"score", "processed"} =>
         /\ log # <<>>
         /\ log[1].op = "embed_query"
         /\ \A i \in 2..Len(log) : log[i].op # "embed_query"
         /\ \A i \in 1..Len(log) :
              /\ (log[i].op = "caption" /\ log[i].ok)
                 => /\ i < Len(log)
                    /\ log[i + 1] = Event("embed_caption", log[i].scene, log[i].pos, TRUE)
              /\ log[i].op = "embed_caption"
                 => /\ i > 1
                    /\ log[i - 1] = Event("caption", log[i].scene, log[i].pos, TRUE)
    /\ pc = "score" =>
         /\ {<<CaptionCalls[i].scene, CaptionCalls[i].pos>> : i \in 1..Len(CaptionCalls)}
              = FramesPassed
         /\ \A i, j \in 1..Len(CaptionCalls) :
              i < j => \/ CaptionCalls[i].scene < CaptionCalls[j].scene
                       \/ /\ CaptionCalls[i].scene = CaptionCalls[j].scene
                          /\ CaptionCalls[i].pos < CaptionCalls[j].pos

C9_Witness ==
    /\ pc = "score"
    /\ si > Len(frames)
    /\ Len(frames) = 2
    /\ \E i \in 1..Len(log) : log[i].op = "caption" /\ ~log[i].ok /\ log[i].pos = 1
    /\ \E i \in 1..Len(log) : log[i].op = "embed_caption" /\ log[i].pos = 2
    /\ \E i \in 1..Len(log) : log[i].op = "embed_caption" /\ log[i].scene = 2

\* C10 (as claimed): at every point the decoded frames held belong to at
\* most one scene.
C10_OneSceneHeld ==
    Cardinality({i \in 1..Len(frames) : frames[i].frames_in_scene # <<>>}) <= 1

\* C10 (amended): the frames of the scenes extracted so far are all held
\* during extraction; while the scenes are scored the frames of every
\* detected scene are held, the scored ones included; none is held once
\* process_video has returned.
C10_AllScenesHeldUntilReturn ==
    /\ pc = "extract" => Len(frames) = si - 1
    /\ pc = "score" => Len(frames) = Len(scene_list)
    /\ pc \in {"extract", "score"} =>
         \A i \in 1..Len(frames) :
            /\ <<frames[i].scene_start, frames[i].scene_end>> = scene_list[i]
            /\ \A p \in 1..Len(frames[i].frames_in_scene) :
                 frames[i].frames_in_scene[p] \in scene_list[i][1]..scene_list[i][2]
    /\ pc \in {"processed", "returned"} => frames = <<>>

C10_Witness ==
    /\ pc = "score"
    /\ si = 2
    /\ Len(frames) = 2
    /\ frames[1].frames_in_scene # <<>>
    /\ frames[2].frames_in_scene # <<>>
    /\ Len(scene_scores) = 1

====
